---- MODULE Spec2Model ----
(***************************************************************************)
(* SECA Data Converter (seca_data_converter.py).                           *)
(*                                                                         *)
(* Texts (OCR text, text layer, tokens, cell strings) are TLA+ strings,    *)
(* read one character at a time with SubSeq.  A Python float is held as an *)
(* integer number of hundredths (Scale), which is exact for the numerals   *)
(* with at most two decimals that a SECA report prints.  Python's None, a  *)
(* float and a str held in a dict are the records None, Float(x), Str(s).  *)
(* A Python dict is a function from its keys; a raised exception is the    *)
(* record Raise(e).                                                        *)
(***************************************************************************)
EXTENDS Integers, Sequences, FiniteSets, TLC

VARIABLES
    pc,           \* main: position in main()
    pdf_files,    \* main: the ordered selection returned by select_pdf_files
    output_path,  \* main: the path returned by select_output_path
    k,            \* main: index of the document the for loop is at
    rows,         \* main: the rows appended so far
    messages,     \* show_message calls made so far, in order
    workbooks,    \* df.to_excel calls made so far (the rows written), in order
    debug_files,  \* names of the documents whose .ocr.txt file was written
    fn,           \* function harness: the function under call
    arg,          \* function harness: its argument
    ret           \* function harness: what it returned (Pending before the call)

vars == <<pc, pdf_files, output_path, k, rows, messages, workbooks, debug_files,
          fn, arg, ret>>

mainVars == <<pc, pdf_files, output_path, k, rows, messages, workbooks, debug_files>>

-----------------------------------------------------------------------------
(* Python values *)

None == [kind |-> "None"]
Float(x) == [kind |-> "float", v |-> x]
Str(s) == [kind |-> "str", s |-> s]
Raise(e) == [exception |-> e]
IsRaise(r) == DOMAIN r = {"exception"}
Pending == [kind |-> "pending"]

\* hundredths: the unit a float is held in
Scale == 10 * 10

Range(seq) == {seq[i] : i \in 1..Len(seq)}

Abs(x) == IF x < 0 THEN -x ELSE x

\* dict.get(key): None when the key is absent
Get(d, key) == IF key \in DOMAIN d THEN d[key] ELSE None

\* dict.update(other): other's keys are added or overwritten
Update(d, other) ==
    [key \in DOMAIN d \cup DOMAIN other |->
        IF key \in DOMAIN other THEN other[key] ELSE d[key]]

\* the character of text at position p (1-based)
CharAt(text, p) == SubSeq(text, p, p)

\* str(n) of a natural number
RECURSIVE str_of_nat(_)
str_of_nat(n) ==
    IF n < 10 THEN CharAt("0123456789", n + 1)
    ELSE str_of_nat(n \div 10) \o CharAt("0123456789", (n % 10) + 1)

-----------------------------------------------------------------------------
(* Schema *)

PATIENT_METADATA_FIELDS ==
    << "Patient ID", "Sex", "Age", "Collection Date", "Collection Time" >>

MEASUREMENT_FIELD_NAMES ==
    << "Fat Mass (kg)",
       "Fat Mass (%)",
       "Fat Mass Index (kg/m^2)",
       "Fat-Free Mass (kg)",
       "Fat-Free Mass (%)",
       "Fat-Free Mass Index (kg/m^2)",
       "Skeletal Muscle Mass (kg)",
       "Right Arm (kg)",
       "Left Arm (kg)",
       "Right Leg (kg)",
       "Left Leg (kg)",
       "Torso (kg)",
       "Visceral Adipose Tissue",
       "SECA BMI (kg/m^2)",
       "Height (m)",
       "Weight (kg)",
       "Total Body Water (L)",
       "Total Body Water (%)",
       "Extracellular Water (L)",
       "Extracellular Water (%)",
       "ECW/TBW (%)",
       "Resting Energy Expenditure (kcal/day)",
       "Energy Consumption (kcal/day)",
       "Phase Angle (deg)",
       "Phase Angle Percentile",
       "Resistance (Ohm)",
       "Reactance (Ohm)",
       "Physical Activity Level" >>

CALCULATED_FIELD_NAMES == << "Body Mass Index (kg/m^2)" >>

RECURSIVE output_field_order_loop(_, _)
output_field_order_loop(order, i) ==
    IF i > Len(MEASUREMENT_FIELD_NAMES) THEN order
    ELSE LET name == MEASUREMENT_FIELD_NAMES[i]
             appended == Append(order, name)
         IN  output_field_order_loop(
                 IF name = "SECA BMI (kg/m^2)"
                 THEN appended \o CALCULATED_FIELD_NAMES
                 ELSE appended,
                 i + 1)

output_field_order ==
    << "Source File" >> \o PATIENT_METADATA_FIELDS
        \o << "Data Quality", "Data Quality Fails" >>
        \o output_field_order_loop(<< >>, 1)

OUTPUT_FIELD_ORDER == output_field_order

-----------------------------------------------------------------------------
(* Regular expressions over numerals *)

Digit == {"0", "1", "2", "3", "4", "5", "6", "7", "8", "9"}

DigitVal(c) ==
    CASE c = "0" -> 0 [] c = "1" -> 1 [] c = "2" -> 2 [] c = "3" -> 3
      [] c = "4" -> 4 [] c = "5" -> 5 [] c = "6" -> 6 [] c = "7" -> 7
      [] c = "8" -> 8 [] c = "9" -> 9

\* \d+ at p, greedy: the position just past the run of digits (p when none)
RECURSIVE DigitsEnd(_, _)
DigitsEnd(text, p) ==
    IF p <= Len(text) /\ CharAt(text, p) \in Digit
    THEN DigitsEnd(text, p + 1)
    ELSE p

\* <sign>?\d+(?:<mark>\d+)? matched at p: the position just past the match,
\* 0 when the pattern does not match at p
MatchNumeralAt(text, p, signs, marks) ==
    LET s == IF p <= Len(text) /\ CharAt(text, p) \in signs THEN p + 1 ELSE p
        e == DigitsEnd(text, s)
    IN  IF e = s THEN 0
        ELSE IF e <= Len(text) /\ CharAt(text, e) \in marks
                  /\ DigitsEnd(text, e + 1) > e + 1
             THEN DigitsEnd(text, e + 1)
             ELSE e

\* the least position from p on where the pattern matches, past the end of
\* text when there is none
RECURSIVE NextNumeral(_, _, _, _)
NextNumeral(text, p, signs, marks) ==
    IF p > Len(text) \/ MatchNumeralAt(text, p, signs, marks) # 0 THEN p
    ELSE NextNumeral(text, p + 1, signs, marks)

\* re.findall: the non-overlapping matches, scanning left to right from p
RECURSIVE FindAllNumerals(_, _, _, _)
FindAllNumerals(text, p, signs, marks) ==
    LET q == NextNumeral(text, p, signs, marks)
        e == MatchNumeralAt(text, q, signs, marks)
    IN  IF q > Len(text) THEN << >>
        ELSE << SubSeq(text, q, e - 1) >> \o FindAllNumerals(text, e, signs, marks)

\* NUMBER_PATTERN.findall(text), NUMBER_PATTERN = -?\d+(?:[.,]\d+)?
NUMBER_PATTERN_findall(text) == FindAllNumerals(text, 1, {"-"}, {".", ","})

\* re.findall(r"\d+(?:\.\d+)?", text)
re_findall_unsigned(text) == FindAllNumerals(text, 1, {}, {"."})

\* int() of a run of digits
RECURSIVE IntOfDigits(_)
IntOfDigits(ds) ==
    IF Len(ds) = 0 THEN 0
    ELSE IntOfDigits(SubSeq(ds, 1, Len(ds) - 1)) * 10 + DigitVal(CharAt(ds, Len(ds)))

\* position of the first "." of token, 0 when it has none
RECURSIVE DotAt(_, _)
DotAt(token, p) ==
    IF p > Len(token) THEN 0
    ELSE IF CharAt(token, p) = "." THEN p ELSE DotAt(token, p + 1)

\* float(token) of a numeral -?\d+(\.\d+)?, in hundredths
float(token) ==
    LET neg == Len(token) > 0 /\ CharAt(token, 1) = "-"
        body == IF neg THEN SubSeq(token, 2, Len(token)) ELSE token
        dot == DotAt(body, 1)
        ip == IF dot = 0 THEN body ELSE SubSeq(body, 1, dot - 1)
        fp == IF dot = 0 THEN "" ELSE SubSeq(body, dot + 1, Len(body))
        fp2 == SubSeq(fp \o "00", 1, 2)
        mag == IntOfDigits(ip) * Scale + IntOfDigits(fp2)
    IN  IF neg THEN -mag ELSE mag

\* str.replace(",", ".")
RECURSIVE replace_comma(_)
replace_comma(token) ==
    IF Len(token) = 0 THEN ""
    ELSE (IF CharAt(token, 1) = "," THEN "." ELSE CharAt(token, 1))
            \o replace_comma(SubSeq(token, 2, Len(token)))

normalize_number(token) == float(replace_comma(token))

-----------------------------------------------------------------------------
(* Strings and the regular expressions of parse_patient_metadata *)

UpperLetters == "ABCDEFGHIJKLMNOPQRSTUVWXYZ"
LowerLetters == "abcdefghijklmnopqrstuvwxyz"

Letter == {CharAt(UpperLetters, i) : i \in 1..Len(UpperLetters)}
            \cup {CharAt(LowerLetters, i) : i \in 1..Len(LowerLetters)}

Whitespace == {" ", "\n", "\t", "\r"}

\* \w
WordChar == Letter \cup Digit \cup {"_"}

\* the lower-case letter of each upper-case letter
LowerOf ==
    [c \in {CharAt(UpperLetters, i) : i \in 1..Len(UpperLetters)} |->
        CharAt(LowerLetters, CHOOSE i \in 1..Len(UpperLetters) : CharAt(UpperLetters, i) = c)]

LowerChar(c) == IF c \in DOMAIN LowerOf THEN LowerOf[c] ELSE c

\* str.lower(): each character mapped, the two halves of text one after the other
RECURSIVE lower(_)
lower(text) ==
    IF Len(text) = 0 THEN ""
    ELSE IF Len(text) = 1 THEN LowerChar(text)
    ELSE lower(SubSeq(text, 1, Len(text) \div 2))
            \o lower(SubSeq(text, (Len(text) \div 2) + 1, Len(text)))

\* sub in text
Contains(text, sub) ==
    \E p \in 1..(Len(text) - Len(sub) + 1) : SubSeq(text, p, p + Len(sub) - 1) = sub

\* the position just past the greedy run, from p, of at most max characters of class
RECURSIVE RunEnd(_, _, _, _)
RunEnd(text, p, class, max) ==
    IF max > 0 /\ p <= Len(text) /\ CharAt(text, p) \in class
    THEN RunEnd(text, p + 1, class, max - 1)
    ELSE p

\* the characters of text
AnyChar(text) == {CharAt(text, i) : i \in 1..Len(text)}

\* text.split(): the maximal runs of non-whitespace characters, from p on
RECURSIVE split_from(_, _)
split_from(text, p) ==
    LET b == RunEnd(text, p, Whitespace, Len(text))
        e == RunEnd(text, b, AnyChar(text) \ Whitespace, Len(text))
    IN  IF b > Len(text) THEN << >>
        ELSE << SubSeq(text, b, e - 1) >> \o split_from(text, e)

\* sep.join(items)
RECURSIVE join(_, _)
join(sep, items) ==
    IF Len(items) = 0 THEN ""
    ELSE IF Len(items) = 1 THEN items[1]
    ELSE items[1] \o sep \o join(sep, Tail(items))

collapse_whitespace(text) == join(" ", split_from(text, 1))

NoMatch == [matched |-> FALSE]
Match(group, end) == [matched |-> TRUE, group |-> group, end |-> end]

\* \b at p: exactly one of the characters before and at p is a word character
WordBoundary(text, p) ==
    (p > 1 /\ CharAt(text, p - 1) \in WordChar)
        # (p <= Len(text) /\ CharAt(text, p) \in WordChar)

\* a literal, ignoring case, at p (lit in lower case)
LiteralAt(text, p, lit) ==
    p + Len(lit) - 1 <= Len(text) /\ lower(SubSeq(text, p, p + Len(lit) - 1)) = lit

\* pattern.search(text): the match at the least position where matchAt matches
Search(text, matchAt(_, _)) ==
    LET at == {p \in 1..Len(text) : matchAt(text, p).matched}
    IN  IF at = {} THEN NoMatch
        ELSE matchAt(text, CHOOSE p \in at : \A q \in at : p <= q)

\* <label>[:\s]+(<class>+) ignoring case, with \b before it when bounded
LabelledAt(text, p, label, bounded, class) ==
    LET s == p + Len(label)
        e == RunEnd(text, s, Whitespace \cup {":"}, Len(text))
        g == RunEnd(text, e, class, Len(text))
    IN  IF (bounded => WordBoundary(text, p)) /\ LiteralAt(text, p, label)
            /\ e > s /\ g > e
        THEN Match(SubSeq(text, e, g - 1), g)
        ELSE NoMatch

\* ID[:\s]+([A-Za-z0-9-]+), re.IGNORECASE
PatientIdAt(text, p) == LabelledAt(text, p, "id", FALSE, Letter \cup Digit \cup {"-"})

\* \bAge[:\s]+(\d+), re.IGNORECASE
AgeAt(text, p) == LabelledAt(text, p, "age", TRUE, Digit)

\* (Male|Female)\b at p, ignoring case: the alternative matched, "" when none
SexWordAt(text, p) ==
    IF LiteralAt(text, p, "male") /\ WordBoundary(text, p + 4) THEN "male"
    ELSE IF LiteralAt(text, p, "female") /\ WordBoundary(text, p + 6) THEN "female"
    ELSE ""

\* \b(Male|Female)\b, re.IGNORECASE
SexAt(text, p) ==
    LET w == SexWordAt(text, p)
    IN  IF WordBoundary(text, p) /\ Len(w) > 0
        THEN Match(SubSeq(text, p, p + Len(w) - 1), p + Len(w))
        ELSE NoMatch

\* \b(\d{1,3})\s+(Male|Female)\b, re.IGNORECASE
AgeFallbackAt(text, p) ==
    LET d == RunEnd(text, p, Digit, 3)
        s == RunEnd(text, d, Whitespace, Len(text))
    IN  IF WordBoundary(text, p) /\ d > p /\ s > d /\ Len(SexWordAt(text, s)) > 0
        THEN Match(SubSeq(text, p, d - 1), s + Len(SexWordAt(text, s)))
        ELSE NoMatch

\* (\d{1,2}[./-]\d{1,2}[./-]\d{2,4})
DateAt(text, p) ==
    LET sep == {".", "/", "-"}
        d1 == RunEnd(text, p, Digit, 2)
        d2 == RunEnd(text, d1 + 1, Digit, 2)
        d3 == RunEnd(text, d2 + 1, Digit, 4)
    IN  IF d1 > p /\ d1 <= Len(text) /\ CharAt(text, d1) \in sep
            /\ d2 > d1 + 1 /\ d2 <= Len(text) /\ CharAt(text, d2) \in sep
            /\ d3 >= d2 + 3
        THEN Match(SubSeq(text, p, d3 - 1), d3)
        ELSE NoMatch

\* (\d{1,2}:\d{2}\s?(?:AM|PM)?), re.IGNORECASE
TimeAt(text, p) ==
    LET h == RunEnd(text, p, Digit, 2)
        m == RunEnd(text, h + 1, Digit, 2)
        s == RunEnd(text, m, Whitespace, 1)
        e == IF LiteralAt(text, s, "am") \/ LiteralAt(text, s, "pm") THEN s + 2 ELSE s
    IN  IF h > p /\ h <= Len(text) /\ CharAt(text, h) = ":" /\ m = h + 3
        THEN Match(SubSeq(text, p, e - 1), e)
        ELSE NoMatch

\* str.strip()
RECURSIVE strip(_)
strip(text) ==
    IF Len(text) > 0 /\ CharAt(text, 1) \in Whitespace
    THEN strip(SubSeq(text, 2, Len(text)))
    ELSE IF Len(text) > 0 /\ CharAt(text, Len(text)) \in Whitespace
    THEN strip(SubSeq(text, 1, Len(text) - 1))
    ELSE text

\* str.title() of a single word of letters
title(word) ==
    LET low == lower(word)
        at == {i \in 1..Len(LowerLetters) : CharAt(LowerLetters, i) = CharAt(low, 1)}
    IN  CharAt(UpperLetters, CHOOSE i \in at : TRUE) \o SubSeq(low, 2, Len(low))

parse_patient_metadata(text) ==
    LET id == Search(text, PatientIdAt)
        age == Search(text, AgeAt)
        sex_match == Search(text, SexAt)
        age_fallback == Search(text, AgeFallbackAt)
        date_match == Search(text, DateAt)
        time_match == Search(text, TimeAt)
    IN  [field \in Range(PATIENT_METADATA_FIELDS) |->
            CASE field = "Patient ID" ->
                    IF id.matched THEN Str(strip(id.group)) ELSE None
              [] field = "Sex" ->
                    IF sex_match.matched THEN Str(title(sex_match.group)) ELSE None
              [] field = "Age" ->
                    IF age.matched THEN Str(strip(age.group))
                    ELSE IF age_fallback.matched THEN Str(age_fallback.group)
                    ELSE None
              [] field = "Collection Date" ->
                    IF date_match.matched THEN Str(date_match.group) ELSE None
              [] field = "Collection Time" ->
                    IF time_match.matched THEN Str(time_match.group) ELSE None]

-----------------------------------------------------------------------------
(* parse_measurements_from_seca_ocr *)

\* fill_measurements reading values cyclically instead of stopping at its end
RECURSIVE fill_measurements_wrapping(_, _, _)
fill_measurements_wrapping(measurements, values, i) ==
    IF i >= Len(MEASUREMENT_FIELD_NAMES) THEN measurements
    ELSE LET name == MEASUREMENT_FIELD_NAMES[i + 1]
         IN  fill_measurements_wrapping(
                 IF Len(values) > 0
                 THEN [measurements EXCEPT ![name] = Float(values[(i % Len(values)) + 1])]
                 ELSE measurements,
                 values, i + 1)

\* the for loop over enumerate(MEASUREMENT_FIELD_NAMES), from index i (0-based)
RECURSIVE fill_measurements(_, _, _)
fill_measurements(measurements, values, i) ==
    IF i >= Len(MEASUREMENT_FIELD_NAMES) THEN measurements
    ELSE LET name == MEASUREMENT_FIELD_NAMES[i + 1]
         IN  fill_measurements(
                 IF i < Len(values)
                 THEN [measurements EXCEPT ![name] = Float(values[i + 1])]
                 ELSE measurements,
                 values, i + 1)

\* the parser returning dict(zip(MEASUREMENT_FIELD_NAMES, values)): no key for
\* a field without a numeral
parse_measurements_zipped(ocr_text) ==
    LET nums == re_findall_unsigned(ocr_text)
        found == {i \in 1..Len(MEASUREMENT_FIELD_NAMES) : i <= Len(nums)}
    IN  [name \in {MEASUREMENT_FIELD_NAMES[i] : i \in found} |->
            Float(float(nums[CHOOSE i \in found : MEASUREMENT_FIELD_NAMES[i] = name]))]

parse_measurements_from_seca_ocr(ocr_text) ==
    LET nums == re_findall_unsigned(ocr_text)
        values == [i \in 1..Len(nums) |-> float(nums[i])]
        measurements == [name \in Range(MEASUREMENT_FIELD_NAMES) |-> None]
    IN  fill_measurements(measurements, values, 0)

-----------------------------------------------------------------------------
(* evaluate_data_quality *)

numbers_present(values, fields) == \A field \in fields : Get(values, field) # None

\* abs(calculated - expected) <= tolerance, for calculated = num / den
\* (num, den, expected and tolerance in hundredths; den # 0)
almost_equal(num, den, expected, tolerance) ==
    Abs(num - expected * den) <= tolerance * Abs(den)

\* Python's (x or 0) and (x or 1) on a float or None, as a number of hundredths
or_(x, default) == IF x = None \/ x.v = 0 THEN default ELSE x.v

\* x in (0, None)
in_zero_none(x) == x = None \/ x.v = 0

\* fixed point of the arctangent: radians are held in 1/AtanUnit
AtanUnit == 100 * 100

\* x - x^3/3 + x^5/5 - x^7/7 + x^9/9 for 0 <= x <= 1/2, x and result in 1/AtanUnit
atan_series(x) ==
    LET x2 == (x * x) \div AtanUnit
        x3 == (x * x2) \div AtanUnit
        x5 == (x3 * x2) \div AtanUnit
        x7 == (x5 * x2) \div AtanUnit
        x9 == (x7 * x2) \div AtanUnit
    IN  x - (x3 \div 3) + (x5 \div 5) - (x7 \div 7) + (x9 \div 9)

\* atan(a / b) for a >= 0, b > 0, a <= b, in 1/AtanUnit radians:
\* atan(x) = atan(1/2) + atan((2x - 1) / (2 + x)) when x > 1/2
atan_unit(a, b) ==
    IF 2 * a <= b THEN atan_series((a * AtanUnit) \div b)
    ELSE atan_series(AtanUnit \div 2)
            + (IF 2 * a - b >= 0
               THEN atan_series(((2 * a - b) * AtanUnit) \div (2 * b + a))
               ELSE 0)

\* math.atan(num / den) * 180 / math.pi, in hundredths of a degree (den # 0)
atan_degrees(num, den) ==
    LET a == Abs(num)
        b == Abs(den)
        half_pi == 15708
        rad == IF a <= b THEN atan_unit(a, b) ELSE half_pi - atan_unit(b, a)
        deg == (rad * 18000) \div 31416
    IN  IF (num < 0) = (den < 0) THEN deg ELSE -deg

rule1_fails(values) ==
    IF numbers_present(values, {"Fat Mass (kg)", "Fat-Free Mass (kg)", "Weight (kg)"})
    THEN LET fm == values["Fat Mass (kg)"]
             ffm == values["Fat-Free Mass (kg)"]
             weight == values["Weight (kg)"]
         IN  ~almost_equal(or_(fm, 0) + or_(ffm, 0), 1, or_(weight, 0), 1)
    ELSE TRUE

rule2_fails(values) ==
    IF numbers_present(values, {"Fat Mass (%)", "Fat-Free Mass (%)"})
    THEN LET fm_pct == values["Fat Mass (%)"]
             ffm_pct == values["Fat-Free Mass (%)"]
         IN  ~almost_equal(or_(fm_pct, 0) + or_(ffm_pct, 0), 1, 100 * Scale, 1)
    ELSE TRUE

rule3_fails(values) ==
    IF numbers_present(values, {"Fat Mass Index (kg/m^2)",
                                "Fat-Free Mass Index (kg/m^2)",
                                "SECA BMI (kg/m^2)"})
    THEN LET fmi == values["Fat Mass Index (kg/m^2)"]
             ffmi == values["Fat-Free Mass Index (kg/m^2)"]
             bmi == values["SECA BMI (kg/m^2)"]
         IN  ~almost_equal(or_(fmi, 0) + or_(ffmi, 0), 1, or_(bmi, 0), 20)
    ELSE TRUE

rule4_fails(values) ==
    IF numbers_present(values, {"Right Arm (kg)", "Left Arm (kg)", "Right Leg (kg)",
                                "Left Leg (kg)", "Torso (kg)",
                                "Skeletal Muscle Mass (kg)"})
    THEN LET sum_limbs == or_(Get(values, "Right Arm (kg)"), 0)
                            + or_(Get(values, "Left Arm (kg)"), 0)
                            + or_(Get(values, "Right Leg (kg)"), 0)
                            + or_(Get(values, "Left Leg (kg)"), 0)
                            + or_(Get(values, "Torso (kg)"), 0)
         IN  ~almost_equal(sum_limbs, 1,
                           or_(values["Skeletal Muscle Mass (kg)"], 0), 30)
    ELSE TRUE

\* rule 5 skipped, instead of failed, when one of its fields is missing
rule5_fails_unless_missing(values) ==
    IF numbers_present(values, {"Weight (kg)", "Height (m)", "SECA BMI (kg/m^2)"})
    THEN LET weight == values["Weight (kg)"]
             height == values["Height (m)"]
             bmi == values["SECA BMI (kg/m^2)"]
         IN  IF in_zero_none(height) THEN TRUE
             ELSE ~almost_equal(or_(weight, 0) * Scale * Scale,
                                or_(height, Scale) * or_(height, Scale),
                                or_(bmi, 0), 40)
    ELSE FALSE

rule5_fails(values) ==
    IF numbers_present(values, {"Weight (kg)", "Height (m)", "SECA BMI (kg/m^2)"})
    THEN LET weight == values["Weight (kg)"]
             height == values["Height (m)"]
             bmi == values["SECA BMI (kg/m^2)"]
         IN  IF in_zero_none(height) THEN TRUE
             ELSE ~almost_equal(or_(weight, 0) * Scale * Scale,
                                or_(height, Scale) * or_(height, Scale),
                                or_(bmi, 0), 40)
    ELSE TRUE

rule6_fails(values) ==
    IF numbers_present(values, {"Extracellular Water (L)", "Total Body Water (L)",
                                "ECW/TBW (%)"})
    THEN LET ecw == values["Extracellular Water (L)"]
             tbw == values["Total Body Water (L)"]
             ratio == values["ECW/TBW (%)"]
         IN  IF in_zero_none(tbw) THEN TRUE
             ELSE ~almost_equal(or_(ecw, 0) * 100 * Scale, or_(tbw, Scale),
                                or_(ratio, 0), 20)
    ELSE TRUE

rule7_fails(values) ==
    IF numbers_present(values, {"Extracellular Water (%)", "Total Body Water (%)",
                                "ECW/TBW (%)"})
    THEN LET ecw_pct == values["Extracellular Water (%)"]
             tbw_pct == values["Total Body Water (%)"]
             ratio == values["ECW/TBW (%)"]
         IN  IF in_zero_none(tbw_pct) THEN TRUE
             ELSE ~almost_equal(or_(ecw_pct, 0) * 100 * Scale, or_(tbw_pct, Scale),
                                or_(ratio, 0), 20)
    ELSE TRUE

rule8_fails(values) ==
    IF numbers_present(values, {"Resting Energy Expenditure (kcal/day)",
                                "Physical Activity Level",
                                "Energy Consumption (kcal/day)"})
    THEN LET ree == values["Resting Energy Expenditure (kcal/day)"]
             pal == values["Physical Activity Level"]
             energy == values["Energy Consumption (kcal/day)"]
         IN  ~almost_equal(or_(ree, 0) * or_(pal, 0), Scale, or_(energy, 0), 1)
    ELSE TRUE

rule9_fails(values) ==
    IF numbers_present(values, {"Reactance (Ohm)", "Resistance (Ohm)",
                                "Phase Angle (deg)"})
    THEN LET reactance == values["Reactance (Ohm)"]
             resistance == values["Resistance (Ohm)"]
             phase_angle == values["Phase Angle (deg)"]
         IN  IF in_zero_none(resistance) THEN TRUE
             ELSE LET calculated == atan_degrees(or_(reactance, 0),
                                                 or_(resistance, Scale))
                  IN  ~almost_equal(calculated, 1, or_(phase_angle, 0), 10)
    ELSE TRUE

rule10_fails(values) ==
    LET percentile == Get(values, "Phase Angle Percentile")
    IN  percentile = None \/ percentile.v < 0 \/ percentile.v > 100 * Scale

\* failures.append(id) when the rule's branch appends
append_if(failures, fails, id) == IF fails THEN Append(failures, id) ELSE failures

\* quality_failures stopping at the first rule that fails
quality_failures_first_only(values) ==
    LET fails == <<rule1_fails(values), rule2_fails(values), rule3_fails(values),
                   rule4_fails(values), rule5_fails(values), rule6_fails(values),
                   rule7_fails(values), rule8_fails(values), rule9_fails(values),
                   rule10_fails(values)>>
        failing == {n \in 1..Len(fails) : fails[n]}
    IN  IF failing = {} THEN << >>
        ELSE << str_of_nat(CHOOSE n \in failing : \A m \in failing : n <= m) >>

\* the list failures at the end of the ten blocks
quality_failures(values) ==
    LET f1 == append_if(<< >>, rule1_fails(values), "1")
        f2 == append_if(f1, rule2_fails(values), "2")
        f3 == append_if(f2, rule3_fails(values), "3")
        f4 == append_if(f3, rule4_fails(values), "4")
        f5 == append_if(f4, rule5_fails(values), "5")
        f6 == append_if(f5, rule6_fails(values), "6")
        f7 == append_if(f6, rule7_fails(values), "7")
        f8 == append_if(f7, rule8_fails(values), "8")
        f9 == append_if(f8, rule9_fails(values), "9")
    IN  append_if(f9, rule10_fails(values), "10")

evaluate_data_quality(values) ==
    LET failures == quality_failures(values)
    IN  [key \in {"Data Quality", "Data Quality Fails"} |->
            IF key = "Data Quality"
            THEN Str(IF Len(failures) = 0 THEN "Pass" ELSE "Fail")
            ELSE Str(IF Len(failures) # 0 THEN join(",", failures) ELSE "")]

-----------------------------------------------------------------------------
(* Text sources.  A document is a record                                    *)
(*   name     : its file name                                               *)
(*   open     : what pdfplumber.open does, "ok" or the error it raises      *)
(*   pages    : its pages, each a record of what the page's calls do:       *)
(*              extract_text (Str, None or Raise), to_image and crop ("ok"  *)
(*              or Raise), image_to_string (Str or Raise)                   *)
(*   writable : whether a file can be written next to it                    *)

Page(text, image, crop, ocr) ==
    [extract_text |-> text, to_image |-> image, crop |-> crop, image_to_string |-> ocr]

Ok == [kind |-> "ok"]

\* the body of the try block of extract_pdf_text for one page, with its except
page_ocr_text(page) ==
    IF IsRaise(page.to_image) THEN ""
    ELSE IF IsRaise(page.crop) THEN ""
    ELSE IF IsRaise(page.image_to_string) THEN ""
    ELSE page.image_to_string.s

extract_pdf_text(pdf) ==
    IF pdf.open # "ok" THEN Raise(pdf.open)
    ELSE Str(join("\n", [i \in 1..Len(pdf.pages) |-> page_ocr_text(pdf.pages[i])]))

\* text = page.extract_text() or ""
page_text_or_empty(page) ==
    IF page.extract_text = None THEN "" ELSE page.extract_text.s

extract_text_layer(pdf) ==
    IF pdf.open # "ok" THEN Raise(pdf.open)
    ELSE LET raising == {i \in 1..Len(pdf.pages) : IsRaise(pdf.pages[i].extract_text)}
         IN  IF raising # {}
             THEN pdf.pages[CHOOSE i \in raising : \A j \in raising : i <= j].extract_text
             ELSE Str(join("\n", [i \in 1..Len(pdf.pages) |->
                                        page_text_or_empty(pdf.pages[i])]))

-----------------------------------------------------------------------------
(* extract_pdf_data: [result |-> the row or Raise(e), debug |-> the text     *)
(* written to the .ocr.txt file, None when none was written]                *)

NotRecognized == "Not recognized as a SECA data export"

\* debug_txt.write_text(ocr_text, encoding="utf-8")
write_debug_text(pdf, ocr_text) ==
    IF pdf.writable THEN Ok ELSE Raise("PermissionError")

\* the derived field, rounded down to hundredths
body_mass_index(row) ==
    LET weight == Get(row, "Weight (kg)")
        height == Get(row, "Height (m)")
    IN  IF ~in_zero_none(height)
        THEN [row EXCEPT !["Body Mass Index (kg/m^2)"] =
                 IF weight # None
                 THEN Float((or_(weight, 0) * Scale * Scale)
                                \div (or_(height, Scale) * or_(height, Scale)))
                 ELSE None]
        ELSE row

build_row(row, normalized_header_text, ocr_text) ==
    LET with_metadata == Update(row, parse_patient_metadata(normalized_header_text))
        with_measurements ==
            Update(with_metadata, parse_measurements_from_seca_ocr(ocr_text))
        with_bmi == body_mass_index(with_measurements)
    IN  Update(with_bmi, evaluate_data_quality(with_bmi))

\* extract_pdf_data raising for a document it does not recognize
extract_pdf_data_rejecting(pdf) ==
    LET text_layer == extract_text_layer(pdf)
        keyword_text == lower(text_layer.s)
        ocr_text == extract_pdf_text(pdf)
        row == [[field \in Range(OUTPUT_FIELD_ORDER) |-> None]
                    EXCEPT !["Source File"] = Str(pdf.name)]
    IN  IF IsRaise(text_layer) THEN [result |-> text_layer, debug |-> None]
        ELSE IF ~Contains(keyword_text, "patient data")
                  \/ ~Contains(keyword_text, "single measurement")
        THEN [result |-> Raise(NotRecognized), debug |-> None]
        ELSE IF IsRaise(ocr_text) THEN [result |-> ocr_text, debug |-> None]
        ELSE IF IsRaise(write_debug_text(pdf, ocr_text.s))
        THEN [result |-> write_debug_text(pdf, ocr_text.s), debug |-> None]
        ELSE [result |-> build_row(row, collapse_whitespace(text_layer.s), ocr_text.s),
              debug |-> Str(ocr_text.s)]

extract_pdf_data(pdf) ==
    LET row == [[field \in Range(OUTPUT_FIELD_ORDER) |-> None]
                    EXCEPT !["Source File"] = Str(pdf.name)]
        text_layer == extract_text_layer(pdf)
        keyword_text == lower(text_layer.s)
        ocr_text == extract_pdf_text(pdf)
    IN  IF IsRaise(text_layer) THEN [result |-> text_layer, debug |-> None]
        ELSE IF ~Contains(keyword_text, "patient data")
                  \/ ~Contains(keyword_text, "single measurement")
        THEN [result |-> Update(row, [key \in {"Data Quality", "Data Quality Fails"} |->
                                         IF key = "Data Quality" THEN Str("Fail")
                                         ELSE Str(NotRecognized)]),
              debug |-> None]
        ELSE IF IsRaise(ocr_text) THEN [result |-> ocr_text, debug |-> None]
        ELSE IF IsRaise(write_debug_text(pdf, ocr_text.s))
        THEN [result |-> write_debug_text(pdf, ocr_text.s), debug |-> None]
        ELSE [result |-> build_row(row, collapse_whitespace(text_layer.s), ocr_text.s),
              debug |-> Str(ocr_text.s)]

-----------------------------------------------------------------------------
(* main *)

Message(title_, message) == [title |-> title_, message |-> message]

NoFilesMessage == Message("SECA Data Converter", "No PDF files were selected.")
NoFolderMessage == Message("SECA Data Converter", "No download folder was selected.")

ParsingErrorMessage(pdf, exc) ==
    Message("Parsing error", "Could not parse '" \o pdf.name \o "'.\nError: " \o exc)

SavedMessage(n, path) ==
    Message("SECA Data Converter",
            "Successfully saved data for " \o str_of_nat(n) \o " file(s) to:\n" \o path)

\* pd.DataFrame(rows, columns=OUTPUT_FIELD_ORDER): one line per row, its cells
\* in column order (a column the row lacks is empty)
DataFrame(rows_, columns) ==
    [i \in 1..Len(rows_) |-> [c \in 1..Len(columns) |-> Get(rows_[i], columns[c])]]

-----------------------------------------------------------------------------
(* Inputs of the parser: a free text of at most MaxFree characters followed *)
(* by further numerals, one per line: few of them, or about as many as the  *)
(* schema has fields, up to MaxFill                                         *)

MaxFree == 3
MaxFill == 29

Alphabet == {"1", "2", "5", ".", ",", "-", " "}

RECURSIVE FreeTexts(_)
FreeTexts(n) ==
    IF n = 0 THEN {""}
    ELSE LET shorter == FreeTexts(n - 1)
         IN  shorter \cup {t \o c : t \in {s \in shorter : Len(s) = n - 1}, c \in Alphabet}

FillNumerals == << "3", "40", "7.5" >>

RECURSIVE Fill(_)
Fill(n) ==
    IF n = 0 THEN ""
    ELSE Fill(n - 1) \o "\n" \o FillNumerals[(n % Len(FillNumerals)) + 1]

FillCounts(fill) == (0..2) \cup ((fill - 5)..fill)

OcrTexts(free, fill) == {t \o Fill(n) : t \in FreeTexts(free), n \in FillCounts(fill)}

-----------------------------------------------------------------------------
(* Inputs of the evaluator: the measurements of a consistent report, cut    *)
(* after the first n numerals, with up to two fields edited                 *)

GoodOcr ==
    "20.0\n28.35\n7.1\n50.56\n71.65\n17.9\n29.9\n1.5\n1.4\n8.0\n7.9\n11.0\n1.2\n25.0\n"
    \o "1.68\n70.56\n37.0\n52.4\n15.0\n21.3\n40.6\n1600\n2560\n5.7\n50\n500\n50\n1.6\n"

\* the largest edit of a value, in steps of EditSteps hundredths
MaxDelta == 1
EditSteps == {1, 25}

Absent == [kind |-> "absent"]

EditValues(old) ==
    {None, Absent, Float(0)}
        \cup (IF old = None THEN {}
              ELSE {Float(old.v + d * u) : d \in (-MaxDelta)..MaxDelta, u \in EditSteps})

Edit(values, field, new) ==
    IF new = Absent
    THEN [key \in DOMAIN values \ {field} |-> values[key]]
    ELSE [values EXCEPT ![field] = new]

\* the first n fields of the schema as read, the others None
CutAfter(values, n) ==
    [name \in DOMAIN values |->
        IF \E i \in 1..n : MEASUREMENT_FIELD_NAMES[i] = name THEN values[name] ELSE None]

GoodValues == parse_measurements_from_seca_ocr(GoodOcr)

\* a field left as it is
Keep == [kind |-> "keep"]

Edited(values, field, new) == IF new = Keep THEN values ELSE Edit(values, field, new)

-----------------------------------------------------------------------------
(* Documents *)

HeaderText ==
    "seca mBCA\nPatient Data\nID: P-01 Age: 42 Male\nSingle Measurement 12.03.2024 10:30 AM"
UpperHeaderText == "PATIENT DATA\nid A7\n37 female\nSINGLE MEASUREMENT\n1/2/24 9:05"
PatientText == "Patient data ID: K-9"
SingleText == "single measurement 31-12-2023"
OtherText == "Invoice 2024\nTotal 12.50"

GoodPage == Page(Str(HeaderText), Ok, Ok, Str(GoodOcr))

Document(name, open, pages, writable) ==
    [name |-> name, open |-> open, pages |-> pages, writable |-> writable]

\* the documents a user can select
Documents ==
    { Document("good.pdf", "ok", << GoodPage >>, TRUE),
      Document("short.pdf", "ok",
               << Page(Str(UpperHeaderText), Ok, Ok, Str("20.0 kg\n28.35 %")) >>, TRUE),
      Document("other.pdf", "ok", << Page(Str(OtherText), Ok, Ok, Str("12.50")) >>, TRUE),
      Document("locked.pdf", "No /Root object! - Is this really a PDF?", << >>, TRUE),
      Document("readonly.pdf", "ok", << GoodPage >>, FALSE),
      Document("scan.pdf", "ok",
               << Page(Raise("Unexpected EOF"), Ok, Ok, Str(GoodOcr)) >>, TRUE),
      Document("blur.pdf", "ok",
               << Page(Str(HeaderText), Ok, Ok, Raise("tesseract is not installed")) >>,
               TRUE),
      Document("letter.pdf", "ok", << Page(None, Ok, Ok, Str("")) >>, FALSE) }

\* the most documents selected in one run
MaxDocs == 3

\* the ordered selections of at most n distinct documents
RECURSIVE Selections(_)
Selections(n) ==
    IF n = 0 THEN {<< >>}
    ELSE LET shorter == Selections(n - 1)
         IN  shorter \cup {Append(sel, d) : sel \in {x \in shorter : Len(x) = n - 1},
                                            d \in Documents}

DistinctSelections(n) == {sel \in Selections(n) :
                             \A i, j \in 1..Len(sel) : i # j => sel[i] # sel[j]}

\* the path select_output_path builds from the folder and the clock
OutputPaths == {"C:/out/seca_measurements_20240312_103000.xlsx"}

HarnessIdle ==
    /\ fn = "main"
    /\ arg = None
    /\ ret = Pending

Init ==
    /\ pc = "select_pdf_files"
    /\ pdf_files = << >>
    /\ output_path = None
    /\ k = 0
    /\ rows = << >>
    /\ messages = << >>
    /\ workbooks = << >>
    /\ debug_files = {}
    /\ HarnessIdle

\* pdf_files = select_pdf_files(); if not pdf_files: show_message; return
SelectPdfFiles ==
    /\ pc = "select_pdf_files"
    /\ \E sel \in DistinctSelections(MaxDocs) :
          /\ pdf_files' = sel
          /\ IF Len(sel) = 0
             THEN /\ messages' = Append(messages, NoFilesMessage)
                  /\ pc' = "returned"
             ELSE /\ messages' = messages
                  /\ pc' = "select_output_path"
    /\ UNCHANGED <<output_path, k, rows, workbooks, debug_files, fn, arg, ret>>

\* output_path = select_output_path(); if output_path is None: show_message; return
SelectOutputPath ==
    /\ pc = "select_output_path"
    /\ \E path \in {None} \cup {Str(x) : x \in OutputPaths} :
          /\ output_path' = path
          /\ IF path = None
             THEN /\ messages' = Append(messages, NoFolderMessage)
                  /\ pc' = "returned"
             ELSE /\ messages' = messages
                  /\ pc' = "for"
    /\ UNCHANGED <<pdf_files, k, rows, workbooks, debug_files, fn, arg, ret>>

\* the loop going on to the next document after a failure (except: continue)
ProcessPdfSkipping ==
    /\ pc = "for"
    /\ k < Len(pdf_files)
    /\ LET pdf == pdf_files[k + 1]
           data == extract_pdf_data(pdf)
       IN  /\ debug_files' = IF data.debug # None
                             THEN debug_files \cup {pdf.name}
                             ELSE debug_files
           /\ IF IsRaise(data.result)
              THEN /\ messages' =
                        Append(messages, ParsingErrorMessage(pdf, data.result.exception))
                   /\ UNCHANGED rows
              ELSE /\ rows' = Append(rows, data.result)
                   /\ UNCHANGED messages
           /\ k' = k + 1
           /\ UNCHANGED pc
    /\ UNCHANGED <<pdf_files, output_path, workbooks, fn, arg, ret>>

\* one iteration of: for pdf in pdf_files: try: rows.append(extract_pdf_data(pdf))
\*                                         except Exception: show_message; return
ProcessPdf ==
    /\ pc = "for"
    /\ k < Len(pdf_files)
    /\ LET pdf == pdf_files[k + 1]
           data == extract_pdf_data(pdf)
       IN  /\ debug_files' = IF data.debug # None
                             THEN debug_files \cup {pdf.name}
                             ELSE debug_files
           /\ IF IsRaise(data.result)
              THEN /\ messages' =
                        Append(messages, ParsingErrorMessage(pdf, data.result.exception))
                   /\ pc' = "returned"
                   /\ UNCHANGED <<rows, k>>
              ELSE /\ rows' = Append(rows, data.result)
                   /\ k' = k + 1
                   /\ UNCHANGED <<messages, pc>>
    /\ UNCHANGED <<pdf_files, output_path, workbooks, fn, arg, ret>>

\* the workbook written inside the loop, after the first document
SaveWorkbookInLoop ==
    /\ pc = "for"
    /\ k >= 1
    /\ workbooks' = Append(workbooks, [path |-> output_path.s,
                                       columns |-> OUTPUT_FIELD_ORDER,
                                       data |-> DataFrame(rows, OUTPUT_FIELD_ORDER)])
    /\ messages' = Append(messages, SavedMessage(Len(rows), output_path.s))
    /\ pc' = "returned"
    /\ UNCHANGED <<pdf_files, output_path, k, rows, debug_files, fn, arg, ret>>

\* after the loop: df = pd.DataFrame(...); df.to_excel(...); show_message
SaveWorkbook ==
    /\ pc = "for"
    /\ k = Len(pdf_files)
    /\ workbooks' = Append(workbooks, [path |-> output_path.s,
                                       columns |-> OUTPUT_FIELD_ORDER,
                                       data |-> DataFrame(rows, OUTPUT_FIELD_ORDER)])
    /\ messages' = Append(messages, SavedMessage(Len(rows), output_path.s))
    /\ pc' = "returned"
    /\ UNCHANGED <<pdf_files, output_path, k, rows, debug_files, fn, arg, ret>>

Next == SelectPdfFiles \/ SelectOutputPath \/ ProcessPdf \/ SaveWorkbook

Spec == Init /\ [][Next]_vars

-----------------------------------------------------------------------------
(* Calls of single functions on inputs drawn from bounded sets *)

MainIdle ==
    /\ pc = "idle"
    /\ pdf_files = << >>
    /\ output_path = None
    /\ k = 0
    /\ rows = << >>
    /\ messages = << >>
    /\ workbooks = << >>
    /\ debug_files = {}

InitParse ==
    /\ MainIdle
    /\ fn = "parse_measurements_from_seca_ocr"
    /\ arg \in OcrTexts(MaxFree, MaxFill)
    /\ ret = Pending

CallParse ==
    /\ fn = "parse_measurements_from_seca_ocr"
    /\ ret = Pending
    /\ ret' = parse_measurements_from_seca_ocr(arg)
    /\ UNCHANGED <<mainVars, fn, arg>>

SpecParse == InitParse /\ [][CallParse]_vars

InitQuality ==
    /\ MainIdle
    /\ fn = "evaluate_data_quality"
    /\ \/ \E n \in 0..Len(MEASUREMENT_FIELD_NAMES) : arg = CutAfter(GoodValues, n)
       \/ \E f1 \in DOMAIN GoodValues, x1 \in {Keep, None, Float(0)} :
             \E f2 \in DOMAIN GoodValues :
                \E x2 \in EditValues(GoodValues[f2]) :
                   arg = Edited(Edit(GoodValues, f2, x2), f1, x1)
    /\ ret = Pending

CallQuality ==
    /\ fn = "evaluate_data_quality"
    /\ ret = Pending
    /\ ret' = evaluate_data_quality(arg)
    /\ UNCHANGED <<mainVars, fn, arg>>

SpecQuality == InitQuality /\ [][CallQuality]_vars

\* the pages of the documents the document functions are called on
PageKinds ==
    { GoodPage,
      Page(Str(PatientText), Ok, Ok, Str("1,5\n-2")),
      Page(Str(SingleText), Raise("cannot render page"), Ok, Str(GoodOcr)),
      Page(None, Ok, Raise("crop box out of bounds"), Str("7")),
      Page(Str(OtherText), Ok, Ok, Raise("tesseract is not installed")),
      Page(Raise("Unexpected EOF"), Ok, Ok, Str("40 3")) }

\* the most pages of such a document
MaxPages == 2

RECURSIVE PageSeqs(_)
PageSeqs(n) ==
    IF n = 0 THEN {<< >>}
    ELSE LET shorter == PageSeqs(n - 1)
         IN  shorter \cup {Append(ps, pg) : ps \in {x \in shorter : Len(x) = n - 1},
                                            pg \in PageKinds}

DocumentInputs(n) ==
    {Document("report.pdf", open, pages, writable) :
        open \in {"ok", "No /Root object! - Is this really a PDF?"},
        pages \in PageSeqs(n),
        writable \in BOOLEAN}

InitDocument ==
    /\ MainIdle
    /\ fn \in {"extract_pdf_text", "extract_text_layer", "extract_pdf_data"}
    /\ arg \in DocumentInputs(MaxPages)
    /\ ret = Pending

CallExtractPdfText ==
    /\ fn = "extract_pdf_text"
    /\ ret = Pending
    /\ ret' = extract_pdf_text(arg)
    /\ UNCHANGED <<mainVars, fn, arg>>

CallExtractTextLayer ==
    /\ fn = "extract_text_layer"
    /\ ret = Pending
    /\ ret' = extract_text_layer(arg)
    /\ UNCHANGED <<mainVars, fn, arg>>

CallExtractPdfData ==
    /\ fn = "extract_pdf_data"
    /\ ret = Pending
    /\ ret' = extract_pdf_data(arg).result
    /\ debug_files' = IF extract_pdf_data(arg).debug # None
                      THEN debug_files \cup {arg.name}
                      ELSE debug_files
    /\ UNCHANGED <<pc, pdf_files, output_path, k, rows, messages, workbooks, fn, arg>>

NextDocument == CallExtractPdfText \/ CallExtractTextLayer \/ CallExtractPdfData

SpecDocument == InitDocument /\ [][NextDocument]_vars

-----------------------------------------------------------------------------
(* Claims about parse_measurements_from_seca_ocr, under SpecParse *)

Parsed == fn = "parse_measurements_from_seca_ocr" /\ ret # Pending

\* the result holds, field by field in schema order, the values of tokens,
\* each read by valueOf, and None from the first field without a token on
AssignsInOrder(result, tokens, valueOf(_)) ==
    \A i \in 1..Len(MEASUREMENT_FIELD_NAMES) :
        Get(result, MEASUREMENT_FIELD_NAMES[i])
            = IF i <= Len(tokens) THEN Float(valueOf(tokens[i])) ELSE None

\* C5: for an OCR text in which the parser's scan finds K numerals, the parser
\* does not raise; field i of the schema (of 28 fields) holds the value of the
\* i-th numeral for every i up to K, and every later field is None; numerals
\* past the 28th are ignored.
C5_PositionalAssignment ==
    Parsed =>
        /\ ~IsRaise(ret)
        /\ AssignsInOrder(ret, re_findall_unsigned(arg), float)

\* a text with fewer numerals than fields has been parsed: its numerals fill
\* the first fields and the last field is None
C5_Witness ==
    /\ Parsed
    /\ Len(re_findall_unsigned(arg)) \in 1..(Len(MEASUREMENT_FIELD_NAMES) - 1)
    /\ ret[MEASUREMENT_FIELD_NAMES[1]] # None
    /\ ret[MEASUREMENT_FIELD_NAMES[Len(MEASUREMENT_FIELD_NAMES)]] = None

\* C6: the parser reads the numerals of NUMBER_PATTERN (optional leading minus,
\* "." or "," as the decimal mark), each as one token whose value is the numeral
\* with "," read as "." and with its sign: "12,5" and "12.5" both give the one
\* value 12.5, and "-3" gives -3.
C6_NumeralNormalization ==
    Parsed => AssignsInOrder(ret, NUMBER_PATTERN_findall(arg), normalize_number)

-----------------------------------------------------------------------------
(* Claims about evaluate_data_quality, under SpecQuality *)

Evaluated == fn = "evaluate_data_quality" /\ ret # Pending

RuleIds == << "1", "2", "3", "4", "5", "6", "7", "8", "9", "10" >>

\* the comma-separated items of text, from position p on
RECURSIVE SplitCommas(_, _)
SplitCommas(text, p) ==
    LET e == RunEnd(text, p, AnyChar(text) \ {","}, Len(text))
    IN  IF Len(text) = 0 THEN << >>
        ELSE IF e > Len(text) THEN << SubSeq(text, p, e - 1) >>
        ELSE << SubSeq(text, p, e - 1) >> \o SplitCommas(text, e + 1)

\* the identifiers listed in the verdict
FailingIds(verdict) == SplitCommas(verdict["Data Quality Fails"].s, 1)

\* the fields each rule needs, and the field it divides by (rules 5, 6, 7, 9)
RuleFields ==
    << {"Fat Mass (kg)", "Fat-Free Mass (kg)", "Weight (kg)"},
       {"Fat Mass (%)", "Fat-Free Mass (%)"},
       {"Fat Mass Index (kg/m^2)", "Fat-Free Mass Index (kg/m^2)", "SECA BMI (kg/m^2)"},
       {"Right Arm (kg)", "Left Arm (kg)", "Right Leg (kg)", "Left Leg (kg)",
        "Torso (kg)", "Skeletal Muscle Mass (kg)"},
       {"Weight (kg)", "Height (m)", "SECA BMI (kg/m^2)"},
       {"Extracellular Water (L)", "Total Body Water (L)", "ECW/TBW (%)"},
       {"Extracellular Water (%)", "Total Body Water (%)", "ECW/TBW (%)"},
       {"Resting Energy Expenditure (kcal/day)", "Physical Activity Level",
        "Energy Consumption (kcal/day)"},
       {"Reactance (Ohm)", "Resistance (Ohm)", "Phase Angle (deg)"},
       {"Phase Angle Percentile"} >>

RuleDenominator ==
    [n \in {5, 6, 7, 9} |->
        CASE n = 5 -> "Height (m)"
          [] n = 6 -> "Total Body Water (L)"
          [] n = 7 -> "Total Body Water (%)"
          [] n = 9 -> "Resistance (Ohm)"]

MissingField(values, n) == \E f \in RuleFields[n] : Get(values, f) = None

ZeroDenominator(values, n) ==
    /\ n \in DOMAIN RuleDenominator
    /\ Get(values, RuleDenominator[n]) = Float(0)

\* |num / den - expected| <= tolerance, in hundredths
Near(num, den, expected, tolerance) ==
    (num - expected * den <= tolerance * Abs(den))
        /\ (expected * den - num <= tolerance * Abs(den))

\* the identity of rule n holds of values, none of its fields missing and its
\* denominator not zero
IdentityHolds(values, n) ==
    LET V(f) == values[f].v
    IN  CASE n = 1 -> Near(V("Fat Mass (kg)") + V("Fat-Free Mass (kg)"), 1,
                           V("Weight (kg)"), 1)
          [] n = 2 -> Near(V("Fat Mass (%)") + V("Fat-Free Mass (%)"), 1, 10000, 1)
          [] n = 3 -> Near(V("Fat Mass Index (kg/m^2)") + V("Fat-Free Mass Index (kg/m^2)"),
                           1, V("SECA BMI (kg/m^2)"), 20)
          [] n = 4 -> Near(V("Right Arm (kg)") + V("Left Arm (kg)") + V("Right Leg (kg)")
                               + V("Left Leg (kg)") + V("Torso (kg)"),
                           1, V("Skeletal Muscle Mass (kg)"), 30)
          [] n = 5 -> Near(V("Weight (kg)") * 10000, V("Height (m)") * V("Height (m)"),
                           V("SECA BMI (kg/m^2)"), 40)
          [] n = 6 -> Near(V("Extracellular Water (L)") * 10000, V("Total Body Water (L)"),
                           V("ECW/TBW (%)"), 20)
          [] n = 7 -> Near(V("Extracellular Water (%)") * 10000, V("Total Body Water (%)"),
                           V("ECW/TBW (%)"), 20)
          [] n = 8 -> Near(V("Resting Energy Expenditure (kcal/day)")
                               * V("Physical Activity Level"),
                           100, V("Energy Consumption (kcal/day)"), 1)
          [] n = 9 -> Near(atan_degrees(V("Reactance (Ohm)"), V("Resistance (Ohm)")), 1,
                           V("Phase Angle (deg)"), 10)
          [] n = 10 -> V("Phase Angle Percentile") >= 0
                          /\ V("Phase Angle Percentile") <= 10000

RuleFails(values, n) ==
    MissingField(values, n) \/ ZeroDenominator(values, n) \/ ~IdentityHolds(values, n)

IdIndex(id) == CHOOSE n \in 1..Len(RuleIds) : RuleIds[n] = id

\* C3: the status is Pass if and only if the list of failing rules is empty,
\* and Fail otherwise; the identifier of every one of the ten rules that fails
\* is in the list; the list holds rule identifiers only, in the order 1..10,
\* none twice.
C3_OverallVerdict ==
    Evaluated =>
        LET list == FailingIds(ret)
        IN  /\ ret["Data Quality"] = Str(IF list = << >> THEN "Pass" ELSE "Fail")
            /\ \A n \in 1..Len(RuleIds) : RuleFails(arg, n) => RuleIds[n] \in Range(list)
            /\ \A i \in 1..Len(list) : list[i] \in Range(RuleIds)
            /\ \A i, j \in 1..Len(list) : i < j => IdIndex(list[i]) < IdIndex(list[j])

\* a set of measurements of which several rules fail, but not the first, has
\* been evaluated
C3_Witness ==
    /\ Evaluated
    /\ Cardinality({n \in 1..Len(RuleIds) : RuleFails(arg, n)}) >= 3
    /\ ~RuleFails(arg, 1)
    /\ Len(FailingIds(ret)) >= 3

\* C4: a rule one of whose fields is None or absent is listed as failing and the
\* status is Fail; so is each of rules 5, 6, 7 and 9 when the field it divides
\* by (height, total body water L, total body water %, resistance) is zero,
\* whatever the other values.
C4_CannotVerifyMeansFail ==
    Evaluated =>
        \A n \in 1..Len(RuleIds) :
            (MissingField(arg, n) \/ ZeroDenominator(arg, n)) =>
                /\ RuleIds[n] \in Range(FailingIds(ret))
                /\ ret["Data Quality"] = Str("Fail")

\* measurements with the height zero and the percentile absent, all other
\* fields consistent, have been evaluated: exactly rules 5 and 10 are listed
C4_Witness ==
    /\ Evaluated
    /\ Get(arg, "Height (m)") = Float(0)
    /\ "Phase Angle Percentile" \notin DOMAIN arg
    /\ FailingIds(ret) = << "5", "10" >>

-----------------------------------------------------------------------------
(* Claims about main, under Spec *)

\* main has shown the error notification of the except branch
Aborted == \E n \in 1..Len(messages) : messages[n].title = "Parsing error"

\* what extract_pdf_data gives for each document that can be selected
Outcome == [pdf \in Documents |-> extract_pdf_data(pdf).result]

\* processing document i of the selection raises
Fails(i) == IsRaise(Outcome[pdf_files[i]])

\* C1: if processing document i raises (the documents before it do not), main
\* never gets past document i, never writes the workbook, writes no debug file
\* for document i or a later one, and when it has returned it has shown exactly
\* one notification, "Parsing error", which names document i and the error.
C1_BatchAbort ==
    \A i \in 1..Len(pdf_files) :
        (Fails(i) /\ \A j \in 1..(i - 1) : ~Fails(j)) =>
            /\ k < i
            /\ Len(rows) < i
            /\ workbooks = << >>
            /\ debug_files \subseteq {pdf_files[j].name : j \in 1..(i - 1)}
            /\ (pc = "returned" /\ output_path # None) =>
                  /\ k = i - 1
                  /\ Len(messages) = 1
                  /\ messages[1].title = "Parsing error"
                  /\ Contains(messages[1].message, "'" \o pdf_files[i].name \o "'")
                  /\ Contains(messages[1].message, Outcome[pdf_files[i]].exception)

\* main has returned after a failure of a document that has documents before
\* and after it: the rows of the documents before it were not written
C1_Witness ==
    /\ pc = "returned"
    /\ Aborted
    /\ k >= 1
    /\ k + 1 < Len(pdf_files)
    /\ Fails(k + 1)
    /\ Len(rows) = k
    /\ workbooks = << >>

\* the text layer of document i is read and lacks one of the two keywords
Unrecognized(i) ==
    LET text_layer == extract_text_layer(pdf_files[i])
    IN  /\ ~IsRaise(text_layer)
        /\ ~(Contains(lower(text_layer.s), "patient data")
                /\ Contains(lower(text_layer.s), "single measurement"))

\* C2: a document whose text layer lacks one of the keywords "patient data" and
\* "single measurement" (in any case) does not abort the batch: main does not
\* return at it with an error, and once it is processed its row is kept, with
\* its file name, Data Quality Fail and the sentinel as Data Quality Fails,
\* while the documents after it are processed and when the workbook is written.
C2_UnrecognizedDocument ==
    \A i \in 1..Len(pdf_files) :
        Unrecognized(i) =>
            /\ ~(Aborted /\ k = i - 1)
            /\ i <= k =>
                  /\ ~IsRaise(rows[i])
                  /\ rows[i]["Source File"] = Str(pdf_files[i].name)
                  /\ rows[i]["Data Quality"] = Str("Fail")
                  /\ rows[i]["Data Quality Fails"] = Str(NotRecognized)
            /\ workbooks # << >> => workbooks[1].data[i][1] = Str(pdf_files[i].name)

\* an unrecognized document was followed by a document that was processed, and
\* the workbook was written
C2_Witness ==
    /\ \E i \in 1..Len(pdf_files) : Unrecognized(i) /\ i < k
    /\ Len(workbooks) = 1

\* C8: the rows are those of the first k documents of the selection, in
\* selection order, row i carrying the file name of document i; the workbook is
\* written at most once, only when all documents are processed, with one line
\* per selected document in selection order; and when no document fails, main
\* does not abort and has written the workbook exactly once when it returns.
C8_SuccessfulBatch ==
    /\ Len(rows) = k
    /\ k <= Len(pdf_files)
    /\ \A i \in 1..Len(rows) : rows[i]["Source File"] = Str(pdf_files[i].name)
    /\ Len(workbooks) <= 1
    /\ workbooks # << >> =>
          /\ pc = "returned"
          /\ k = Len(pdf_files)
          /\ Len(workbooks[1].data) = Len(pdf_files)
          /\ \A i \in 1..Len(pdf_files) :
                workbooks[1].data[i][1] = Str(pdf_files[i].name)
    /\ (\A i \in 1..Len(pdf_files) : ~Fails(i)) =>
          /\ ~Aborted
          /\ (pc = "returned" /\ pdf_files # << >> /\ output_path # None) =>
                Len(workbooks) = 1

\* a batch of several documents was processed and the workbook written
C8_Witness ==
    /\ pc = "returned"
    /\ Len(pdf_files) >= 2
    /\ \A i \in 1..Len(pdf_files) : ~Fails(i)
    /\ Len(workbooks) = 1
    /\ Len(workbooks[1].data) = Len(pdf_files)

-----------------------------------------------------------------------------
(* Claims about the functions of a document, under SpecDocument *)

Extracted == fn = "extract_pdf_data" /\ ret # Pending

\* C7: the row extract_pdf_data returns, for a recognized document or not, has
\* exactly the keys of OUTPUT_FIELD_ORDER, every field of
\* MEASUREMENT_FIELD_NAMES among them; and every field of
\* MEASUREMENT_FIELD_NAMES is a key of what parse_measurements_from_seca_ocr
\* returns for the document's OCR text.
C7_SchemaCompleteness ==
    Extracted =>
        /\ ~IsRaise(ret) =>
              /\ DOMAIN ret = Range(OUTPUT_FIELD_ORDER)
              /\ Range(MEASUREMENT_FIELD_NAMES) \subseteq DOMAIN ret
        /\ ~IsRaise(extract_pdf_text(arg)) =>
              Range(MEASUREMENT_FIELD_NAMES)
                  \subseteq DOMAIN parse_measurements_from_seca_ocr(extract_pdf_text(arg).s)

\* the row of a recognized document whose OCR text has too few numerals
C7_Witness ==
    /\ Extracted
    /\ ~IsRaise(ret)
    /\ ret["Data Quality Fails"] # Str(NotRecognized)
    /\ ret[MEASUREMENT_FIELD_NAMES[1]] # None
    /\ ret[MEASUREMENT_FIELD_NAMES[Len(MEASUREMENT_FIELD_NAMES)]] = None

\* what a page gives a text source that takes a failure as the empty string
PageTextOrEmpty(source, page) ==
    IF source = "extract_text_layer"
    THEN (IF IsRaise(page.extract_text) \/ page.extract_text = None
          THEN "" ELSE page.extract_text.s)
    ELSE (IF IsRaise(page.to_image) \/ IsRaise(page.crop) \/ IsRaise(page.image_to_string)
          THEN "" ELSE page.image_to_string.s)

\* C9: for a document whose container opens, extract_pdf_text and
\* extract_text_layer return the texts of the pages joined by newlines, a page
\* whose rasterization, cropping, OCR or text extraction fails counting as the
\* empty string; neither raises.
C9_TextSourcesNeverRaise ==
    (fn \in {"extract_pdf_text", "extract_text_layer"} /\ ret # Pending /\ arg.open = "ok")
        => ret = Str(join("\n", [i \in 1..Len(arg.pages) |->
                                    PageTextOrEmpty(fn, arg.pages[i])]))

\* C10: what extract_pdf_data returns for a document is what it returns for
\* the same document with the other outcome of writing the .ocr.txt file.
C10_DebugWriteDoesNotAffectRow ==
    Extracted => ret = extract_pdf_data([arg EXCEPT !.writable = ~arg.writable]).result

====
